---- MODULE Spec2Model ----
(***************************************************************************)
(* LiveSessionManager (services/liveService.ts): the real-time duplex      *)
(* audio session manager.                                                   *)
(*                                                                          *)
(* One step of the model is one browser task (a UI call, a transport event, *)
(* a promise settled by the outside world) together with every microtask it *)
(* triggers: JavaScript runs those to completion before the next task.      *)
(* A suspension is modelled only where the code awaits something the        *)
(* outside world settles: getUserMedia, a connection that is still          *)
(* opening, a tool callback.                                                *)
(*                                                                          *)
(* The k-th startSession call allocates audio contexts k, microphone        *)
(* stream k and connection k; the m-th inbound message schedules buffer m.  *)
(* 0 stands for null.  One more session index stands for a session that    *)
(* an earlier startSession call, made before the run begins, has set up.    *)
(***************************************************************************)
EXTENDS Integers, Sequences, FiniteSets, TLC

MaxStarts == 2      \* startSession calls explored
MaxStops  == 2      \* stopSession calls explored
MaxMsgs   == 2      \* inbound messages explored
MaxCalls  == 2      \* function calls per inbound message
MaxTime   == 1      \* ticks of the output clock explored
MaxErrors == 1      \* error events explored
MaxLen    == 2      \* samples per captured chunk
Resolution == 10    \* sample values are the multiples of 1/Resolution
MaxPlans  == 2      \* handleTopicSubmit calls explored
MaxItems  == 2      \* items of a generated plan
MaxReqs   == 3      \* media requests explored
MaxPolls  == 1      \* polls of a video operation that find it unfinished
MaxAdds   == 1      \* add_item calls explored
BatchItems == 4     \* items on display when batches are run
MaxBatches == 2     \* batch generations explored

Starts    == 1..MaxStarts        \* startSession calls
Earlier   == MaxStarts + 1       \* a session set up before the run begins
Sessions  == Starts \cup {Earlier} \* contexts, streams, connections, processors
Stops     == 1..MaxStops
Msgs      == 1..MaxMsgs
ToolNames == << "generate_image", "control_location" >>
Durations == {1, 2}          \* buffer lengths, in units of 0.5 s
TickLen   == 2               \* the output clock is observed once a second
NoAudio   == [kind |-> "none", dur |-> 0]
\* Inline data that decodeAudioData rejects: atob throws on a string that is
\* not base64, the Int16Array constructor on an odd number of bytes.
Malformed == {[kind |-> "notBase64", dur |-> 0], [kind |-> "oddLength", dur |-> 0]}
Decodable == {[kind |-> "pcm", dur |-> d] : d \in Durations}
AudioIn   == {NoAudio} \cup Malformed \cup Decodable

VARIABLES
    \* fields of LiveSessionManager
    activeSessionPromise, inputAudioContext, outputAudioContext, mediaStream,
    processor, source, nextStartTime, sources, outputNode,
    \* the browser and the remote service
    connState,      \* connection k: none, opening, open, closing, closed, failed
    inCtxState,     \* input AudioContext k: none, running, closed
    outCtxState,    \* output AudioContext k: none, running, closed
    trackState,     \* tracks of MediaStream k: none, live, stopped
    procState,      \* ScriptProcessor made in connection p's onopen: [st, ctx]
    bufState,       \* AudioBufferSourceNode of message m: [st, start, dur], with
                    \* start and dur kept while it is playing
    now,            \* outputAudioContext.currentTime
    \* calls and handlers in flight
    startPc,        \* startSession call k: idle, awaitSession, awaitGUM, done, failed
    stopPc,         \* stopSession call j: idle, awaitSession, done
    waitQ,          \* continuations registered on a connection promise, in order
    handlers,       \* handleMessage invocation m
    \* observations
    frames,         \* tool-response frames transmitted, in order
    closeCalls,     \* session.close() calls per connection
    audioSent,      \* connections on which a captured chunk has been transmitted
    onCloseLog,     \* per connection, one entry per onClose() invocation: whether
                    \* the manager was released when the callback ran
    onErrorCalls,   \* onError() invocations
    overlap,        \* some startSession/stopSession call began while another ran
    stoppedSince,   \* a stopSession has returned and no startSession began since
    \* one chunk through createPcmBlob and decodeAudioData
    pcmIn,          \* the Float32Array handed to createPcmBlob
    int16,          \* the Int16Array it fills
    pcmBlob,        \* what it returns: [data, mimeType]
    audioBuffer,    \* what decodeAudioData makes of that data: [st, channelData]
    codecPc,        \* idle, input, encoded, decoded
    \* state of the App component
    appMounted,     \* the App drives the manager and is the one it calls back
    isGeneralLiveActive,
    materials,      \* the item list, in display order
    selectedIds,
    isLoadingList,
    isBatchGenerating,
    \* calls of the App's handlers in flight
    planCalls,      \* handleTopicSubmit call r, in order of submission
    addCalls,       \* add_item calls so far
    mediaCalls,     \* image, blueprint and video requests, in order of start
    batchCalls      \* batch generation b

managerVars == << activeSessionPromise, inputAudioContext, outputAudioContext, mediaStream,
           processor, source, nextStartTime, sources, outputNode,
           connState, inCtxState, outCtxState, trackState, procState, bufState, now,
           startPc, stopPc, waitQ, handlers,
           frames, closeCalls, audioSent, onCloseLog, onErrorCalls,
           overlap, stoppedSince >>

codecVars == << pcmIn, int16, pcmBlob, audioBuffer, codecPc >>

liveVars == << appMounted, isGeneralLiveActive >>

listVars == << materials, selectedIds, isLoadingList, isBatchGenerating,
               planCalls, addCalls, mediaCalls, batchCalls >>

appVars == << liveVars, listVars >>

vars == << managerVars, codecVars, appVars >>

\* The whole state as one record, so that a handler is the composition of the
\* methods it calls.
Snap ==
    [ activeSessionPromise |-> activeSessionPromise,
      inputAudioContext |-> inputAudioContext,
      outputAudioContext |-> outputAudioContext,
      mediaStream |-> mediaStream, processor |-> processor, source |-> source,
      nextStartTime |-> nextStartTime, sources |-> sources, outputNode |-> outputNode,
      connState |-> connState, inCtxState |-> inCtxState, outCtxState |-> outCtxState,
      trackState |-> trackState, procState |-> procState, bufState |-> bufState,
      now |-> now, startPc |-> startPc, stopPc |-> stopPc, waitQ |-> waitQ,
      handlers |-> handlers, frames |-> frames, closeCalls |-> closeCalls,
      audioSent |-> audioSent, onCloseLog |-> onCloseLog,
      onErrorCalls |-> onErrorCalls,
      overlap |-> overlap, stoppedSince |-> stoppedSince ]

\* An App whose onClose callback leaves the flag alone.
LiveFlagIgnoringClose(T) ==
    LET called   == \E k \in Starts : startPc[k] = "idle" /\ T.startPc[k] # "idle"
        rejected == \E k \in Starts : startPc[k] # "failed" /\ T.startPc[k] = "failed"
        stopped  == \E j \in Stops : stopPc[j] # "done" /\ T.stopPc[j] = "done"
        errored  == T.onErrorCalls > onErrorCalls
    IN IF ~appMounted THEN isGeneralLiveActive
       ELSE IF rejected \/ stopped \/ errored THEN FALSE
       ELSE IF called THEN TRUE
       ELSE isGeneralLiveActive

\* isGeneralLiveActive after a step of the manager that takes it from Snap to
\* T, when the App is its caller: startGeneralLive sets the flag before it
\* calls startSession; the onClose and onError callbacks it passes, its catch
\* block when startSession rejects, and stopGeneralLive once stopSession has
\* returned, clear it.
LiveFlagAfter(T) ==
    LET called   == \E k \in Starts : startPc[k] = "idle" /\ T.startPc[k] # "idle"
        rejected == \E k \in Starts : startPc[k] # "failed" /\ T.startPc[k] = "failed"
        stopped  == \E j \in Stops : stopPc[j] # "done" /\ T.stopPc[j] = "done"
        closed   == \E c \in Sessions : Len(T.onCloseLog[c]) > Len(onCloseLog[c])
        errored  == T.onErrorCalls > onErrorCalls
    IN IF ~appMounted THEN isGeneralLiveActive
       ELSE IF rejected \/ stopped \/ closed \/ errored THEN FALSE
       ELSE IF called THEN TRUE
       ELSE isGeneralLiveActive

Commit(T) ==
    /\ activeSessionPromise' = T.activeSessionPromise
    /\ inputAudioContext' = T.inputAudioContext
    /\ outputAudioContext' = T.outputAudioContext
    /\ mediaStream' = T.mediaStream
    /\ processor' = T.processor
    /\ source' = T.source
    /\ nextStartTime' = T.nextStartTime
    /\ sources' = T.sources
    /\ outputNode' = T.outputNode
    /\ connState' = T.connState
    /\ inCtxState' = T.inCtxState
    /\ outCtxState' = T.outCtxState
    /\ trackState' = T.trackState
    /\ procState' = T.procState
    /\ bufState' = T.bufState
    /\ now' = T.now
    /\ startPc' = T.startPc
    /\ stopPc' = T.stopPc
    /\ waitQ' = T.waitQ
    /\ handlers' = T.handlers
    /\ frames' = T.frames
    /\ closeCalls' = T.closeCalls
    /\ audioSent' = T.audioSent
    /\ onCloseLog' = T.onCloseLog
    /\ onErrorCalls' = T.onErrorCalls
    /\ overlap' = T.overlap
    /\ stoppedSince' = T.stoppedSince
    /\ UNCHANGED codecVars
    /\ isGeneralLiveActive' = LiveFlagAfter(T)
    /\ UNCHANGED << appMounted, listVars >>

NoHandler == [st |-> "none", conn |-> 0, calls |-> << >>, idx |-> 0,
              resp |-> << >>, audio |-> NoAudio, intr |-> FALSE]
NoBuffer  == [st |-> "none", start |-> 0, dur |-> 0]
NoProc    == [st |-> "none", ctx |-> 0]
NoBlob    == [data |-> << >>, mimeType |-> ""]
NoPlan    == [st |-> "none", n |-> 0]
NoMedia   == [st |-> "none", id |-> 0, kind |-> "none", polls |-> 0, ok |-> FALSE]
NoBatch   == [st |-> "none", ids |-> << >>, i |-> 0, flight |-> {}]
NoUrl     == ""
Plans     == 1..MaxPlans
Reqs      == 1..MaxReqs
Batches   == 1..MaxBatches
NoAudioBuffer == [st |-> "none", channelData |-> << >>]

\* No chunk is being converted.
CodecIdle ==
    /\ pcmIn = << >>
    /\ int16 = << >>
    /\ pcmBlob = NoBlob
    /\ audioBuffer = NoAudioBuffer
    /\ codecPc = "idle"

\* The App with nothing in flight: no list, no selection, nothing loading.
NothingInFlight ==
    /\ planCalls = [r \in Plans |-> NoPlan]
    /\ addCalls = 0
    /\ mediaCalls = [q \in Reqs |-> NoMedia]
    /\ batchCalls = [b \in Batches |-> NoBatch]

ListEmpty ==
    /\ materials = << >>
    /\ selectedIds = {}
    /\ isLoadingList = FALSE
    /\ isBatchGenerating = FALSE
    /\ NothingInFlight

\* The manager on its own, driven by any caller.
AppIdle ==
    /\ appMounted = FALSE
    /\ isGeneralLiveActive = FALSE
    /\ ListEmpty

\* The manager as constructed.
Constructed ==
    /\ activeSessionPromise = 0
    /\ inputAudioContext = 0
    /\ outputAudioContext = 0
    /\ mediaStream = 0
    /\ processor = 0
    /\ source = 0
    /\ nextStartTime = 0
    /\ sources = {}
    /\ outputNode = 0
    /\ connState = [k \in Sessions |-> "none"]
    /\ inCtxState = [k \in Sessions |-> "none"]
    /\ outCtxState = [k \in Sessions |-> "none"]
    /\ trackState = [k \in Sessions |-> "none"]
    /\ procState = [k \in Sessions |-> NoProc]
    /\ bufState = [m \in Msgs |-> NoBuffer]
    /\ now = 0
    /\ startPc = [k \in Starts |-> "idle"]
    /\ stopPc = [j \in Stops |-> "idle"]
    /\ waitQ = << >>
    /\ handlers = [m \in Msgs |-> NoHandler]
    /\ frames = << >>
    /\ closeCalls = [k \in Sessions |-> 0]
    /\ audioSent = {}
    /\ onCloseLog = [k \in Sessions |-> << >>]
    /\ onErrorCalls = 0
    /\ overlap = FALSE
    /\ stoppedSince = FALSE

Init == Constructed /\ CodecIdle /\ AppIdle

\* The manager as an earlier startSession call leaves it: contexts allocated,
\* the microphone acquired, the connection requested and still opening.
InitOpening ==
    /\ activeSessionPromise = Earlier
    /\ inputAudioContext = Earlier
    /\ outputAudioContext = Earlier
    /\ mediaStream = Earlier
    /\ processor = 0
    /\ source = 0
    /\ nextStartTime = 0
    /\ sources = {}
    /\ outputNode = Earlier
    /\ connState = [k \in Sessions |-> IF k = Earlier THEN "opening" ELSE "none"]
    /\ inCtxState = [k \in Sessions |-> IF k = Earlier THEN "running" ELSE "none"]
    /\ outCtxState = [k \in Sessions |-> IF k = Earlier THEN "running" ELSE "none"]
    /\ trackState = [k \in Sessions |-> IF k = Earlier THEN "live" ELSE "none"]
    /\ procState = [k \in Sessions |-> NoProc]
    /\ bufState = [m \in Msgs |-> NoBuffer]
    /\ now = 0
    /\ startPc = [k \in Starts |-> "idle"]
    /\ stopPc = [j \in Stops |-> "idle"]
    /\ waitQ = << >>
    /\ handlers = [m \in Msgs |-> NoHandler]
    /\ frames = << >>
    /\ closeCalls = [k \in Sessions |-> 0]
    /\ audioSent = {}
    /\ onCloseLog = [k \in Sessions |-> << >>]
    /\ onErrorCalls = 0
    /\ overlap = FALSE
    /\ stoppedSince = FALSE
    /\ CodecIdle
    /\ AppIdle

\* The manager as a completed startSession and the open event leave it: the
\* connection open, the capture pipeline wired, nothing scheduled yet.
Opened ==
    /\ activeSessionPromise = Earlier
    /\ inputAudioContext = Earlier
    /\ outputAudioContext = Earlier
    /\ mediaStream = Earlier
    /\ processor = Earlier
    /\ source = Earlier
    /\ nextStartTime = 0
    /\ sources = {}
    /\ outputNode = Earlier
    /\ connState = [k \in Sessions |-> IF k = Earlier THEN "open" ELSE "none"]
    /\ inCtxState = [k \in Sessions |-> IF k = Earlier THEN "running" ELSE "none"]
    /\ outCtxState = [k \in Sessions |-> IF k = Earlier THEN "running" ELSE "none"]
    /\ trackState = [k \in Sessions |-> IF k = Earlier THEN "live" ELSE "none"]
    /\ procState = [k \in Sessions |->
                      IF k = Earlier THEN [st |-> "active", ctx |-> Earlier]
                      ELSE NoProc]
    /\ bufState = [m \in Msgs |-> NoBuffer]
    /\ now = 0
    /\ startPc = [k \in Starts |-> "idle"]
    /\ stopPc = [j \in Stops |-> "idle"]
    /\ waitQ = << >>
    /\ handlers = [m \in Msgs |-> NoHandler]
    /\ frames = << >>
    /\ closeCalls = [k \in Sessions |-> 0]
    /\ audioSent = {}
    /\ onCloseLog = [k \in Sessions |-> << >>]
    /\ onErrorCalls = 0
    /\ overlap = FALSE
    /\ stoppedSince = FALSE

InitOpen == Opened /\ CodecIdle /\ AppIdle

Max(a, b) == IF a >= b THEN a ELSE b
Min(a, b) == IF a <= b THEN a ELSE b

(***************************************************************************)
(* The codec.  A sample is a multiple of 1/Resolution, or NaN; an encoded  *)
(* sample is a 16-bit integer; a decoded sample is a multiple of           *)
(* 1/DecodeScale.  A base64 string is the sequence of its characters, each *)
(* the 6-bit value it stands for, or Pad for "=".                          *)
(***************************************************************************)
ScaleNegative == 32768      \* 0x8000
ScalePositive == 32767      \* 0x7FFF
DecodeScale   == 32768
Pad           == 64
MimeType      == "audio/pcm;rate=16000"

NaN     == [nan |-> TRUE, num |-> 0]
Samples == {[nan |-> FALSE, num |-> n] : n \in (-Resolution - 2)..(Resolution + 2)}
               \cup {NaN}
Chunks  == UNION {[1..l -> Samples] : l \in 1..MaxLen}

\* A clamp that lets every sample through.
ClampNone(x) == x

\* Math.max(-1, Math.min(1, x)); NaN stays NaN.
Clamp(x) ==
    IF x.nan THEN x
    ELSE [x EXCEPT !.num = Max(-Resolution, Min(Resolution, @))]

\* Conversion of a number to an Int16Array element: the fraction is dropped,
\* the integer taken modulo 2^16 into -32768..32767.
TruncDiv(a, b) == IF a >= 0 THEN a \div b ELSE -((-a) \div b)
WrapInt16(t) ==
    LET u == t % 65536 IN IF u >= 32768 THEN u - 65536 ELSE u

\* int16[i] = s < 0 ? s * 0x8000 : s * 0x7FFF, with s the clamped sample;
\* NaN is not below 0, its product is NaN, and NaN is stored as 0.
EncodeSample(x) ==
    LET c == Clamp(x)
        scaled == IF c.num < 0 THEN c.num * ScaleNegative
                  ELSE c.num * ScalePositive
    IN IF c.nan THEN 0 ELSE WrapInt16(TruncDiv(scaled, Resolution))

\* An encoder that writes the high byte first.
Int16BytesBigEndian(v) ==
    LET u == v % 65536 IN << u \div 256, u % 256 >>

\* The two bytes of an Int16Array element as a Uint8Array over the same buffer
\* shows them: low byte first.
Int16Bytes(v) ==
    LET u == v % 65536 IN << u % 256, u \div 256 >>

RECURSIVE Uint8View(_)
Uint8View(a) ==
    IF a = << >> THEN << >> ELSE Int16Bytes(Head(a)) \o Uint8View(Tail(a))

\* btoa: three bytes to four characters, the last group padded.
RECURSIVE Btoa(_)
Btoa(b) ==
    IF Len(b) = 0 THEN << >>
    ELSE IF Len(b) = 1
         THEN << b[1] \div 4, (b[1] % 4) * 16, Pad, Pad >>
    ELSE IF Len(b) = 2
         THEN << b[1] \div 4, (b[1] % 4) * 16 + (b[2] \div 16),
                 (b[2] % 16) * 4, Pad >>
    ELSE << b[1] \div 4, (b[1] % 4) * 16 + (b[2] \div 16),
            (b[2] % 16) * 4 + (b[3] \div 64), b[3] % 64 >>
             \o Btoa(SubSeq(b, 4, Len(b)))

\* createPcmBlob(data): the Int16Array and the blob built from it.
Int16Of(data) == [i \in 1..Len(data) |-> EncodeSample(data[i])]
CreatePcmBlob(data) ==
    [data |-> Btoa(Uint8View(Int16Of(data))), mimeType |-> MimeType]

\* atob: up to two trailing "=" of a string whose length is a multiple of 4 are
\* dropped; what is left must hold no "=" and not be one character over a
\* multiple of 4; four characters give three bytes, spare bits are dropped.
Unpadded(s) ==
    IF Len(s) > 0 /\ Len(s) % 4 = 0 /\ s[Len(s)] = Pad
    THEN IF s[Len(s) - 1] = Pad THEN SubSeq(s, 1, Len(s) - 2)
         ELSE SubSeq(s, 1, Len(s) - 1)
    ELSE s

RECURSIVE BytesOf(_)
BytesOf(t) ==
    IF Len(t) < 2 THEN << >>
    ELSE IF Len(t) = 2 THEN << t[1] * 4 + (t[2] \div 16) >>
    ELSE IF Len(t) = 3
         THEN << t[1] * 4 + (t[2] \div 16), (t[2] % 16) * 16 + (t[3] \div 4) >>
    ELSE << t[1] * 4 + (t[2] \div 16), (t[2] % 16) * 16 + (t[3] \div 4),
            (t[3] % 4) * 64 + t[4] >>
             \o BytesOf(SubSeq(t, 5, Len(t)))

Atob(s) ==
    LET t == Unpadded(s) IN
    IF Len(t) % 4 = 1 \/ \E i \in 1..Len(t) : t[i] = Pad
    THEN [ok |-> FALSE, bytes |-> << >>]
    ELSE [ok |-> TRUE, bytes |-> BytesOf(t)]

\* An Int16Array element over two bytes of a buffer: low byte first.
Int16At(lo, hi) == WrapInt16(lo + 256 * hi)

\* decodeAudioData(base64): atob, the bytes viewed as an Int16Array (which
\* throws on an odd number of bytes), each element divided by 32768.  A
\* decoded sample is kept as its numerator over DecodeScale.
DecodeAudioData(base64) ==
    LET r == Atob(base64)
        n == Len(r.bytes) \div 2
    IN IF ~r.ok THEN [st |-> "notBase64", channelData |-> << >>]
       ELSE IF Len(r.bytes) % 2 # 0
            THEN [st |-> "oddLength", channelData |-> << >>]
       ELSE [st |-> "decoded",
             channelData |-> [i \in 1..n |->
                                Int16At(r.bytes[2 * i - 1], r.bytes[2 * i])]]

(***************************************************************************)
(* Methods of LiveSessionManager, as functions from state to state.        *)
(***************************************************************************)

\* A stopAudioPlayback that leaves the cursor where it was.
StopAudioPlaybackKeepingCursor(S) ==
    [S EXCEPT
        !.bufState = [m \in Msgs |->
                        IF m \in S.sources
                        THEN [NoBuffer EXCEPT !.st = "stopped"]
                        ELSE S.bufState[m]],
        !.sources = {}]

\* stopAudioPlayback(): stop every pending source, clear the set, reset the
\* cursor to the output clock (0 without an output context).
StopAudioPlayback(S) ==
    [S EXCEPT
        !.bufState = [m \in Msgs |->
                        IF m \in S.sources
                        THEN [NoBuffer EXCEPT !.st = "stopped"]
                        ELSE S.bufState[m]],
        !.sources = {},
        !.nextStartTime = IF S.outputAudioContext # 0 THEN S.now ELSE 0]

\* cleanup(): stopAudioPlayback, then release whatever each field refers to and
\* null the field; outputNode is not among the fields it resets.
Cleanup(S) ==
    LET A == StopAudioPlayback(S) IN
    [A EXCEPT
        !.procState = IF A.processor # 0
                      THEN [@ EXCEPT ![A.processor].st = "off"] ELSE @,
        !.processor = 0,
        !.source = 0,
        !.trackState = IF A.mediaStream # 0
                       THEN [@ EXCEPT ![A.mediaStream] = "stopped"] ELSE @,
        !.mediaStream = 0,
        !.inCtxState = IF A.inputAudioContext # 0
                       THEN [@ EXCEPT ![A.inputAudioContext] = "closed"] ELSE @,
        !.inputAudioContext = 0,
        !.outCtxState = IF A.outputAudioContext # 0
                        THEN [@ EXCEPT ![A.outputAudioContext] = "closed"] ELSE @,
        !.outputAudioContext = 0,
        !.activeSessionPromise = 0,
        !.nextStartTime = 0]

\* Every handle cleanup() resets is null, nothing is pending and the cursor
\* is at 0.
IsReleased(S) ==
    /\ S.activeSessionPromise = 0
    /\ S.inputAudioContext = 0
    /\ S.outputAudioContext = 0
    /\ S.mediaStream = 0
    /\ S.processor = 0
    /\ S.source = 0
    /\ S.sources = {}
    /\ S.nextStartTime = 0

\* An onclose that tells the caller before it tears down.
OnCloseNotifyingFirst(S, c) ==
    Cleanup([S EXCEPT !.onCloseLog[c] = Append(@, IsReleased(S))])

\* The onclose callback given to ai.live.connect: cleanup(), then the caller's
\* onClose().
OnCloseHandler(S, c) ==
    LET A == Cleanup(S) IN
    [A EXCEPT !.onCloseLog[c] = Append(@, IsReleased(A))]

\* session.close() inside stopSession's try block.  The socket starts closing
\* and its close event follows, whether the call returns or throws: a
\* transport never ends without a close event, and a throw is caught by the
\* caller.
SessionClose(S, c, throws) ==
    [S EXCEPT
        !.closeCalls[c] = @ + 1,
        !.connState[c] = IF @ = "open" THEN "closing" ELSE @]

\* startSession, step 1: both audio contexts and the gain node.  A new output
\* context starts its clock at 0.
InitAudioContexts(S, k) ==
    [S EXCEPT
        !.inputAudioContext = k,
        !.outputAudioContext = k,
        !.outputNode = k,
        !.inCtxState[k] = "running",
        !.outCtxState[k] = "running",
        !.now = 0]

\* What the caller of stopSession does once stopSession has returned:
\* startSession goes on to allocate and asks for the microphone, a plain
\* stopSession call is over.
AfterStop(S, who) ==
    IF who[1] = "start"
    THEN [InitAudioContexts(S, who[2]) EXCEPT !.startPc[who[2]] = "awaitGUM"]
    ELSE [S EXCEPT !.stopPc[who[2]] = "done", !.stoppedSince = TRUE]

Suspend(S, who, c) ==
    LET T == [S EXCEPT !.waitQ = Append(@, [on |-> c, who |-> who, frame |-> << >>])]
    IN IF who[1] = "start"
       THEN [T EXCEPT !.startPc[who[2]] = "awaitSession"]
       ELSE [T EXCEPT !.stopPc[who[2]] = "awaitSession"]

\* A stopSession whose close() is not wrapped in try/catch: a close that
\* throws ends the call before cleanup.
StopSessionUncaught(S, who, throws) ==
    LET c == S.activeSessionPromise IN
    IF c = 0 THEN AfterStop(Cleanup(S), who)
    ELSE IF S.connState[c] = "opening" THEN Suspend(S, who, c)
    ELSE IF S.connState[c] = "failed" \/ throws
         THEN (IF who[1] = "start"
               THEN [SessionClose(S, c, throws) EXCEPT !.startPc[who[2]] = "failed"]
               ELSE [SessionClose(S, c, throws) EXCEPT !.stopPc[who[2]] = "done"])
    ELSE AfterStop(Cleanup(SessionClose(S, c, throws)), who)

\* stopSession() as called by `who`, up to its first suspension.
StopSession(S, who, throws) ==
    LET c == S.activeSessionPromise IN
    IF c = 0 THEN AfterStop(Cleanup(S), who)
    ELSE IF S.connState[c] = "opening" THEN Suspend(S, who, c)
    ELSE IF S.connState[c] = "failed" THEN AfterStop(Cleanup(S), who)
    ELSE AfterStop(Cleanup(SessionClose(S, c, throws)), who)

\* A startSession that wires the capture pipeline as soon as it has asked for
\* the connection, without waiting for onopen.
ConnectCapturing(S, k) ==
    [S EXCEPT !.mediaStream = k,
              !.trackState[k] = "live",
              !.connState[k] = "opening",
              !.activeSessionPromise = k,
              !.startPc[k] = "done",
              !.source = IF S.inputAudioContext = 0 THEN @ ELSE k,
              !.processor = IF S.inputAudioContext = 0 THEN @ ELSE k,
              !.procState[k] = IF S.inputAudioContext = 0 THEN @
                               ELSE [st |-> "active", ctx |-> S.inputAudioContext]]

\* startSession, steps 2 and 3, once getUserMedia has resolved: keep the
\* stream, call ai.live.connect and keep its promise.  Nothing is captured yet.
Connect(S, k) ==
    [S EXCEPT !.mediaStream = k,
              !.trackState[k] = "live",
              !.connState[k] = "opening",
              !.activeSessionPromise = k,
              !.startPc[k] = "done"]

\* setupAudioInput(sessionPromise): the capture source and the 4096-sample
\* processor, unless the input context or the stream is gone.
SetupAudioInput(S, c) ==
    IF S.inputAudioContext = 0 \/ S.mediaStream = 0 THEN S
    ELSE [S EXCEPT
            !.source = c,
            !.processor = c,
            !.procState[c] = [st |-> "active", ctx |-> S.inputAudioContext]]

\* this.activeSessionPromise?.then(session => session.sendToolResponse(...)):
\* nothing without a handle; transmitted at once on an open socket; queued
\* behind a promise that is still pending; lost on a socket that is going away.
SendToolResponse(S, m) ==
    LET c == S.activeSessionPromise
        f == [on |-> c, msg |-> m, entries |-> S.handlers[m].resp]
    IN IF c = 0 THEN S
       ELSE IF S.connState[c] = "open" THEN [S EXCEPT !.frames = Append(@, f)]
       ELSE IF S.connState[c] = "opening"
            THEN [S EXCEPT !.waitQ = Append(@, [on |-> c, who |-> << "send", m >>,
                                                frame |-> f.entries])]
       ELSE S

\* A schedule that starts every buffer at the clock, whatever the cursor.
ScheduleFromClock(S, m, dur) ==
    [S EXCEPT
        !.bufState[m] = [st |-> "playing", start |-> S.now, dur |-> dur],
        !.nextStartTime = S.now + dur,
        !.sources = @ \cup {m}]

\* A schedule that starts every buffer at the cursor, whatever the clock.
ScheduleAtCursor(S, m, dur) ==
    [S EXCEPT
        !.bufState[m] = [st |-> "playing", start |-> S.nextStartTime, dur |-> dur],
        !.nextStartTime = S.nextStartTime + dur,
        !.sources = @ \cup {m}]

\* A schedule that forgets to advance the cursor.
ScheduleOverlapping(S, m, dur) ==
    LET startAt == Max(S.nextStartTime, S.now) IN
    [S EXCEPT
        !.bufState[m] = [st |-> "playing", start |-> startAt, dur |-> dur],
        !.nextStartTime = startAt,
        !.sources = @ \cup {m}]

\* A schedule that does not add the source to the pending set.
ScheduleUntracked(S, m, dur) ==
    LET startAt == Max(S.nextStartTime, S.now) IN
    [S EXCEPT
        !.bufState[m] = [st |-> "playing", start |-> startAt, dur |-> dur],
        !.nextStartTime = startAt + dur]

\* The schedule part of handleMessage: start at max(cursor, clock), advance the
\* cursor by the buffer's duration, add the source to the pending set.
Schedule(S, m, dur) ==
    LET startAt == Max(S.nextStartTime, S.now) IN
    [S EXCEPT
        !.bufState[m] = [st |-> "playing", start |-> startAt, dur |-> dur],
        !.nextStartTime = startAt + dur,
        !.sources = @ \cup {m}]

\* An audio part that moves the cursor up to the clock before it decodes.
HandleAudioCursorFirst(S, m) ==
    LET a == S.handlers[m].audio IN
    IF a.kind = "none" \/ S.outputAudioContext = 0 \/ S.outputNode = 0 THEN S
    ELSE IF a \in Malformed
         THEN [S EXCEPT !.nextStartTime = Max(S.nextStartTime, S.now)]
    ELSE Schedule(S, m, a.dur)

\* The audio part of handleMessage: skipped without inline data or without an
\* output context and node; a chunk that fails to decode throws inside the
\* try block before anything is assigned, and the catch block drops it.
HandleAudio(S, m) ==
    LET a == S.handlers[m].audio IN
    IF a.kind = "none" \/ S.outputAudioContext = 0 \/ S.outputNode = 0 THEN S
    ELSE IF a \in Malformed THEN S
    ELSE Schedule(S, m, a.dur)

HandleInterrupted(S, m) ==
    IF S.handlers[m].intr THEN StopAudioPlayback(S) ELSE S

\* handleMessage from the end of the function-call loop to its return.  What
\* a returned handler held is forgotten, except that its chunk was malformed.
FinishMessage(S, m) ==
    LET A == IF Len(S.handlers[m].calls) > 0 THEN SendToolResponse(S, m) ELSE S
        B == HandleAudio(A, m)
        C == HandleInterrupted(B, m)
        dropped == S.handlers[m].audio \in Malformed
    IN [C EXCEPT !.handlers[m].st = "done",
                 !.handlers[m].audio = IF dropped THEN @ ELSE NoAudio,
                 !.handlers[m].intr = IF dropped THEN @ ELSE FALSE]

\* One turn of the function-call loop once the awaited callback has settled:
\* push the result-shaped or error-shaped entry, then call the next callback
\* or leave the loop.
AfterCallback(S, m, ok) ==
    LET h == S.handlers[m]
        fc == h.calls[h.idx]
        r == [id |-> fc.id, name |-> fc.name,
              kind |-> IF ok THEN "result" ELSE "error"]
        T == [S EXCEPT !.handlers[m].resp = Append(@, r)]
    IN IF h.idx < Len(h.calls)
       THEN [T EXCEPT !.handlers[m].idx = @ + 1]
       ELSE FinishMessage(T, m)

\* The function calls of inbound message m when it carries n of them: ids are
\* unique, names alternate between a tool that answers at once and one that
\* waits for the outside world.
FunctionCalls(m, n) ==
    [i \in 1..n |-> [id |-> 10 * m + i, name |-> ToolNames[1 + ((m + i) % 2)]]]

\* handleMessage(message, onToolCall) up to its first suspension.
HandleMessage(S, m, c, calls, audio, intr) ==
    LET T == [S EXCEPT !.handlers[m] =
                [st |-> "awaitCb", conn |-> c, calls |-> calls,
                 idx |-> IF Len(calls) > 0 THEN 1 ELSE 0,
                 resp |-> << >>, audio |-> audio, intr |-> intr]]
    IN IF Len(calls) > 0 THEN T ELSE FinishMessage(T, m)

(***************************************************************************)
(* Continuations registered on a connection promise run when it settles,   *)
(* in registration order.  The awaiting stopSession calls advance in       *)
(* lock step: each calls close(), then each runs cleanup(), then each      *)
(* returns to its caller (a startSession then allocates).                  *)
(***************************************************************************)
RECURSIVE RunThen(_, _, _, _)
RunThen(S, q, rejected, throws) ==
    IF q = << >> THEN S
    ELSE LET w == Head(q)
             T == IF rejected THEN S
                  ELSE IF w.who[1] = "send"
                       THEN IF S.connState[w.on] = "open"
                            THEN [S EXCEPT !.frames =
                                    Append(@, [on |-> w.on, msg |-> w.who[2],
                                               entries |-> w.frame])]
                            ELSE S
                       ELSE SessionClose(S, w.on, throws)
         IN RunThen(T, Tail(q), rejected, throws)

RECURSIVE ReturnAll(_, _)
ReturnAll(S, q) ==
    IF q = << >> THEN S
    ELSE ReturnAll(IF Head(q).who[1] = "send" THEN S ELSE AfterStop(S, Head(q).who),
                   Tail(q))

Waiting(S, c) == SelectSeq(S.waitQ, LAMBDA w : w.on = c)
IsStopper(w) == w.who[1] # "send"

Settle(S, c, rejected, throws) ==
    LET q == Waiting(S, c)
        A == RunThen(S, q, rejected, throws)
        B == IF SelectSeq(q, IsStopper) # << >> THEN Cleanup(A) ELSE A
        C == ReturnAll(B, q)
    IN [C EXCEPT !.waitQ = SelectSeq(@, LAMBDA w : w.on # c)]

(***************************************************************************)
(* Steps.                                                                   *)
(***************************************************************************)
InProgress(S) ==
    \/ \E k \in Starts : S.startPc[k] \in {"awaitSession", "awaitGUM"}
    \/ \E j \in Stops : S.stopPc[j] = "awaitSession"

\* A caller invokes startSession: `await this.stopSession()` and, once that has
\* returned, the contexts and the getUserMedia request.
StartSessionCall(k) ==
    /\ startPc[k] = "idle"
    /\ \A i \in Starts : i < k => startPc[i] # "idle"
    /\ \E throws \in BOOLEAN :
         Commit(StopSession([Snap EXCEPT !.overlap = @ \/ InProgress(Snap),
                                         !.stoppedSince = FALSE],
                            << "start", k >>, throws))

\* getUserMedia resolves: the stream is stored, the connection is requested and
\* its promise becomes the manager's handle.
GumResolve(k) ==
    /\ startPc[k] = "awaitGUM"
    /\ Commit(Connect(Snap, k))

\* getUserMedia rejects: the catch block runs cleanup and rethrows.
GumReject(k) ==
    /\ startPc[k] = "awaitGUM"
    /\ Commit([Cleanup(Snap) EXCEPT !.startPc[k] = "failed"])

\* A caller invokes stopSession.
StopSessionCall(j) ==
    /\ stopPc[j] = "idle"
    /\ \A i \in Stops : i < j => stopPc[i] # "idle"
    /\ \E throws \in BOOLEAN :
         Commit(StopSession([Snap EXCEPT !.overlap = @ \/ InProgress(Snap)],
                            << "stop", j >>, throws))

\* The connection opens: onopen runs setupAudioInput, then the promise
\* resolves and whatever awaits it continues.
OnOpen(c) ==
    /\ connState[c] = "opening"
    /\ \E throws \in BOOLEAN :
         Commit(Settle(SetupAudioInput([Snap EXCEPT !.connState[c] = "open"], c),
                       c, FALSE, throws))

\* The handshake fails: the close event runs cleanup; the promise rejects, or
\* never settles and leaves whatever awaits it suspended for good.
ConnFail(c) ==
    /\ connState[c] = "opening"
    /\ \E settles \in BOOLEAN :
         LET A == OnCloseHandler([Snap EXCEPT !.connState[c] = "failed"], c)
         IN Commit(IF settles THEN Settle(A, c, TRUE, FALSE) ELSE A)

\* onclose, for a close the remote side started and for the close event that
\* follows a local close(): cleanup, then the caller's onClose.
OnClose(c) ==
    /\ connState[c] \in {"open", "closing"}
    /\ Commit(OnCloseHandler([Snap EXCEPT !.connState[c] = "closed"], c))

\* An onerror that tears the session down by itself.
OnErrorTearingDown(c) ==
    /\ connState[c] \in {"opening", "open", "closing"}
    /\ onErrorCalls < MaxErrors
    /\ Commit([Cleanup(Snap) EXCEPT !.onErrorCalls = @ + 1])

\* onerror: the caller's onError(e), and nothing else.
OnError(c) ==
    /\ connState[c] \in {"opening", "open", "closing"}
    /\ onErrorCalls < MaxErrors
    /\ Commit([Snap EXCEPT !.onErrorCalls = @ + 1])

\* onmessage: the transport hands the next message of an open connection to
\* handleMessage and does not wait for what it returns.  The message carries n
\* function calls, inline audio and an interruption flag drawn from the sets
\* given.
Receive(c, counts, audios, flags) ==
    /\ connState[c] = "open"
    /\ \E m \in Msgs :
         /\ handlers[m].st = "none"
         /\ \A i \in Msgs : i < m => handlers[i].st # "none"
         /\ \E n \in counts, audio \in audios, intr \in flags :
              Commit(HandleMessage(Snap, m, c, FunctionCalls(m, n), audio, intr))

OnMessage(c) == Receive(c, 0..MaxCalls, AudioIn, BOOLEAN)

\* The two kinds of message the service sends in practice: a toolCall message
\* and a serverContent message.
OnToolCall(c) == Receive(c, 1..MaxCalls, {NoAudio}, {FALSE})
OnServerContent(c) == Receive(c, {0}, {NoAudio} \cup Decodable, BOOLEAN)

\* A serverContent message whose inline data does not decode.
OnMalformedAudio(c) == Receive(c, {0}, Malformed, BOOLEAN)

\* The tool callback awaited by handler m resolves or rejects.
CallbackSettles(m) ==
    /\ handlers[m].st = "awaitCb"
    /\ \E ok \in BOOLEAN :
         Commit(AfterCallback(Snap, m, ok))

\* onaudioprocess of the processor made for connection p: encode the chunk and
\* hand it to sessionPromise.then, which sends it once that promise has
\* resolved; a socket that is going away drops it.
AudioProcess(p) ==
    /\ procState[p].st = "active"
    /\ inCtxState[procState[p].ctx] = "running"
    /\ Commit(IF connState[p] = "open"
              THEN [Snap EXCEPT !.audioSent = @ \cup {p}]
              ELSE Snap)

\* A pending source finishes playing: its ended listener removes it.
Ended(m) ==
    /\ m \in sources
    /\ now >= bufState[m].start + bufState[m].dur
    /\ Commit([Snap EXCEPT !.sources = @ \ {m},
                           !.bufState[m] = [NoBuffer EXCEPT !.st = "ended"]])

\* The output clock advances.
Tick ==
    /\ outputAudioContext # 0
    /\ now < MaxTime * TickLen
    /\ Commit([Snap EXCEPT !.now = @ + TickLen])

Next ==
    \/ \E k \in Starts : StartSessionCall(k)
    \/ \E k \in Starts : GumResolve(k)
    \/ \E k \in Starts : GumReject(k)
    \/ \E j \in Stops : StopSessionCall(j)
    \/ \E c \in Sessions : OnOpen(c)
    \/ \E c \in Sessions : ConnFail(c)
    \/ \E c \in Sessions : OnClose(c)
    \/ \E c \in Sessions : OnError(c)
    \/ \E c \in Sessions : OnMessage(c)
    \/ \E m \in Msgs : CallbackSettles(m)
    \/ \E p \in Sessions : AudioProcess(p)
    \/ \E m \in Msgs : Ended(m)
    \/ Tick

Spec == Init /\ [][Next]_vars

\* The session lifecycle alone: calls, the microphone, connection events and
\* capture, with no inbound message.
NextLifecycle ==
    \/ \E k \in Starts : StartSessionCall(k)
    \/ \E k \in Starts : GumResolve(k)
    \/ \E k \in Starts : GumReject(k)
    \/ \E j \in Stops : StopSessionCall(j)
    \/ \E c \in Sessions : OnOpen(c)
    \/ \E c \in Sessions : ConnFail(c)
    \/ \E c \in Sessions : OnClose(c)
    \/ \E p \in Sessions : AudioProcess(p)

SpecLifecycle == Init /\ [][NextLifecycle]_vars

\* The same steps, from a manager whose connection is still opening.
SpecHandshake == InitOpening /\ [][NextLifecycle]_vars

\* What the browser owes the program: getUserMedia is answered, and a
\* connection the program closed delivers its close event.  The remote side
\* owes nothing: a handshake may stay unanswered for good.
BrowserAnswers ==
    /\ WF_vars(\E k \in Starts : GumResolve(k) \/ GumReject(k))
    /\ \A c \in Sessions : WF_vars(connState[c] = "closing" /\ OnClose(c))

SpecHandshakeFair == SpecHandshake /\ BrowserAnswers

\* Session lifecycle with inbound toolCall and serverContent messages and the
\* tool callbacks they await; the output clock stands still.
NextDispatch ==
    \/ \E k \in Starts : StartSessionCall(k)
    \/ \E k \in Starts : GumResolve(k)
    \/ \E k \in Starts : GumReject(k)
    \/ \E j \in Stops : StopSessionCall(j)
    \/ \E c \in Sessions : OnOpen(c)
    \/ \E c \in Sessions : ConnFail(c)
    \/ \E c \in Sessions : OnClose(c)
    \/ \E c \in Sessions : OnToolCall(c)
    \/ \E c \in Sessions : OnServerContent(c)
    \/ \E m \in Msgs : CallbackSettles(m)

SpecDispatch == Init /\ [][NextDispatch]_vars

\* Callers that never overlap their calls: startSession and stopSession are
\* invoked only while no earlier call is still in progress.  Connection events,
\* serverContent messages, the output clock and the end of playback stay free
\* to interleave.
NextPlayback ==
    \/ ~InProgress(Snap) /\ \E k \in Starts : StartSessionCall(k)
    \/ ~InProgress(Snap) /\ \E j \in Stops : StopSessionCall(j)
    \/ \E k \in Starts : GumResolve(k)
    \/ \E k \in Starts : GumReject(k)
    \/ \E c \in Sessions : OnOpen(c)
    \/ \E c \in Sessions : ConnFail(c)
    \/ \E c \in Sessions : OnClose(c)
    \/ \E c \in Sessions : OnServerContent(c)
    \/ \E m \in Msgs : Ended(m)
    \/ Tick

SpecPlayback == Init /\ [][NextPlayback]_vars

\* One open session until it ends: serverContent messages, the output clock,
\* the end of playback, error events, and the close event or stopSession
\* that tears it down.
NextSession ==
    \/ \E c \in Sessions : OnServerContent(c)
    \/ \E c \in Sessions : OnMalformedAudio(c)
    \/ \E m \in Msgs : Ended(m)
    \/ Tick
    \/ \E c \in Sessions : OnError(c)
    \/ \E c \in Sessions : OnClose(c)
    \/ \E j \in Stops : StopSessionCall(j)

SpecSession == InitOpen /\ [][NextSession]_vars

\* One open session receiving messages of any shape, function calls and inline
\* audio in the same message included, with the tool callbacks they await.
NextInbound ==
    \/ \E c \in Sessions : OnMessage(c)
    \/ \E m \in Msgs : CallbackSettles(m)
    \/ \E m \in Msgs : Ended(m)
    \/ Tick

SpecInbound == InitOpen /\ [][NextInbound]_vars

\* A captured chunk is handed to createPcmBlob.
Encode ==
    /\ codecPc = "input"
    /\ int16' = Int16Of(pcmIn)
    /\ pcmBlob' = CreatePcmBlob(pcmIn)
    /\ codecPc' = "encoded"
    /\ UNCHANGED << managerVars, appVars, pcmIn, audioBuffer >>

\* The data of the blob is handed to decodeAudioData.
Decode ==
    /\ codecPc = "encoded"
    /\ audioBuffer' = DecodeAudioData(pcmBlob.data)
    /\ codecPc' = "decoded"
    /\ UNCHANGED << managerVars, appVars, pcmIn, int16, pcmBlob >>

\* The codec alone, on every chunk of up to MaxLen samples.
InitCodec ==
    /\ Constructed
    /\ AppIdle
    /\ pcmIn \in Chunks
    /\ int16 = << >>
    /\ pcmBlob = NoBlob
    /\ audioBuffer = NoAudioBuffer
    /\ codecPc = "input"

NextCodec == Encode \/ Decode

SpecCodec == InitCodec /\ [][NextCodec]_vars

\* handleToggleGeneralLive: stopGeneralLive when the flag is set, else
\* startGeneralLive.
HandleToggleGeneralLive ==
    /\ appMounted
    /\ IF isGeneralLiveActive
       THEN \E j \in Stops : StopSessionCall(j)
       ELSE \E k \in Starts : StartSessionCall(k)

\* The App, mounted, with its Plan Voice button, and everything that answers
\* the manager: the microphone, the connection and its events.
InitLive ==
    /\ Constructed
    /\ CodecIdle
    /\ appMounted = TRUE
    /\ isGeneralLiveActive = FALSE
    /\ ListEmpty

NextLive ==
    \/ HandleToggleGeneralLive
    \/ \E k \in Starts : GumResolve(k)
    \/ \E k \in Starts : GumReject(k)
    \/ \E c \in Sessions : OnOpen(c)
    \/ \E c \in Sessions : ConnFail(c)
    \/ \E c \in Sessions : OnClose(c)
    \/ \E c \in Sessions : OnError(c)

SpecLive == InitLive /\ [][NextLive]_vars

(***************************************************************************)
(* Properties.                                                              *)
(***************************************************************************)
Released ==
    /\ activeSessionPromise = 0
    /\ inputAudioContext = 0
    /\ outputAudioContext = 0
    /\ mediaStream = 0
    /\ processor = 0
    /\ source = 0
    /\ sources = {}
    /\ nextStartTime = 0

LiveStreams  == {k \in Sessions : trackState[k] = "live"}
OpenSessions == {c \in Sessions : connState[c] = "open"}
Connections  == {c \in Sessions : connState[c] \in {"opening", "open"}}

FramesFor(m) == SelectSeq(frames, LAMBDA f : f.msg = m)
QueuedFor(m) == SelectSeq(waitQ, LAMBDA w : w.who = << "send", m >>)

\* Nothing of the manager is suspended: no call, no handler, no continuation.
Quiet ==
    /\ ~InProgress(Snap)
    /\ \A m \in Msgs : handlers[m].st # "awaitCb"
    /\ waitQ = << >>

\* C1: a message with N function calls, received on a session that is still
\* open once its handler has finished, has exactly one tool-response frame
\* (transmitted, or queued on a connection promise) and that frame has N
\* entries, entry i carrying the id and name of request i; every callback of
\* the batch was invoked.  Stated for callers whose calls never overlap.
C1_OneFramePerBatch ==
    \A m \in Msgs :
        LET h == handlers[m] IN
        ( /\ h.st = "done" /\ Len(h.calls) > 0
          /\ connState[h.conn] = "open" /\ ~overlap ) =>
            /\ h.idx = Len(h.calls)
            /\ Len(FramesFor(m)) + Len(QueuedFor(m)) = 1
            /\ \A i \in 1..Len(FramesFor(m)) :
                 LET e == FramesFor(m)[i].entries IN
                 /\ Len(e) = Len(h.calls)
                 /\ \A n \in 1..Len(e) :
                      e[n].id = h.calls[n].id /\ e[n].name = h.calls[n].name

\* C2: no pipelining: when a message delivered after m1 on the same session
\* has had a side effect (a tool callback invoked, a buffer scheduled), the
\* handler of m1, which carries function calls, has already issued its
\* tool response.
C2_NoPipelining ==
    \A m1, m2 \in Msgs :
        ( /\ m1 < m2
          /\ handlers[m2].st # "none"
          /\ handlers[m1].conn = handlers[m2].conn
          /\ Len(handlers[m1].calls) > 0
          /\ (handlers[m2].idx >= 1 \/ bufState[m2].st # "none") )
        => handlers[m1].st = "done"

\* C3: a startSession called while a session is open, no other call being in
\* progress and no two calls having overlapped, closes every open connection
\* and releases the microphone, the processor and both contexts of the
\* previous session in the step in which the new contexts come to exist, the
\* new contexts being the manager's and running after that step; and at most
\* one session is open afterwards.
C3_RestartReleasesFirst ==
    [][ /\ \A k \in Starts :
             ( /\ startPc[k] = "idle" /\ startPc'[k] # "idle"
               /\ ~InProgress(Snap) /\ ~overlap
               /\ OpenSessions # {} )
             => /\ \A c \in OpenSessions : connState'[c] \in {"closing", "closed"}
                /\ mediaStream # 0 => trackState'[mediaStream] = "stopped"
                /\ processor # 0 => procState'[processor].st = "off"
                /\ inputAudioContext # 0 => inCtxState'[inputAudioContext] = "closed"
                /\ outputAudioContext # 0 => outCtxState'[outputAudioContext] = "closed"
                /\ startPc'[k] = "awaitGUM"
                /\ inputAudioContext' = k /\ inCtxState'[k] = "running"
                /\ outputAudioContext' = k /\ outCtxState'[k] = "running"
        /\ ~overlap' => Cardinality(OpenSessions') <= 1
      ]_vars

\* C4: at most one microphone stream has live tracks and at most one
\* connection is open, in every reachable state.
C4_ExclusiveDevices ==
    /\ Cardinality(LiveStreams) <= 1
    /\ Cardinality(OpenSessions) <= 1

\* C5: once a stopSession has returned, no startSession has been called since
\* and nothing is suspended any more, the manager holds no microphone stream,
\* no audio context, no pending buffer and no connection handle.
C5_NoResurrection ==
    (stoppedSince /\ Quiet) =>
        /\ mediaStream = 0
        /\ inputAudioContext = 0 /\ outputAudioContext = 0
        /\ sources = {}
        /\ activeSessionPromise = 0

\* C6: every tool-response frame is transmitted on the session that delivered
\* its function calls, and no message gets more than one frame.  Stated for
\* callers whose calls never overlap.
C6_ResponseOnSameSession ==
    ~overlap =>
        /\ \A i \in 1..Len(frames) : frames[i].on = handlers[frames[i].msg].conn
        /\ \A m \in Msgs : Len(FramesFor(m)) <= 1

\* C7: a capture processor exists only for a connection that has signalled
\* open, and a captured chunk is transmitted only on such a connection: none
\* while the connection is opening.
C7_CaptureAfterOpen ==
    /\ \A p \in Sessions :
         procState[p].st # "none" => connState[p] \notin {"none", "opening"}
    /\ \A p \in audioSent : connState[p] \notin {"none", "opening"}

C7_Capturing ==
    \E p \in Sessions :
        p \in audioSent /\ procState[p].st = "active" /\ connState[p] = "open"

\* C8: a stopSession called while the manager's session is open and no other
\* call is in progress returns in that step, whether close() returned or
\* threw, having requested the close of its connection once and switched its
\* processor off; after it no microphone track is live, no audio context is
\* running, no buffer is playing, every handle is null, the pending set is
\* empty and the cursor is at 0.
C8_StopTearsDown ==
    [][ \A j \in Stops :
          ( /\ stopPc[j] = "idle" /\ stopPc'[j] # "idle"
            /\ ~InProgress(Snap)
            /\ activeSessionPromise \in OpenSessions )
          => /\ stopPc'[j] = "done"
             /\ connState'[activeSessionPromise] \in {"closing", "closed"}
             /\ closeCalls'[activeSessionPromise] = closeCalls[activeSessionPromise] + 1
             /\ processor # 0 => procState'[processor].st = "off"
             /\ \A a \in Sessions :
                  /\ trackState'[a] # "live"
                  /\ inCtxState'[a] # "running"
                  /\ outCtxState'[a] # "running"
             /\ \A m \in Msgs : bufState'[m].st # "playing"
             /\ Released'
      ]_vars

C8_Stopped ==
    \E j \in Stops, a \in Sessions, m \in Msgs :
        /\ stopPc[j] = "done" /\ stoppedSince /\ Released
        /\ closeCalls[a] = 1 /\ connState[a] = "closed"
        /\ trackState[a] = "stopped" /\ procState[a].st = "off"
        /\ inCtxState[a] = "closed" /\ outCtxState[a] = "closed"
        /\ bufState[m].st = "stopped"

\* A stopSession call begins in this step on a manager that no call has
\* touched since the last stopSession returned, or that was never started.
StopWithNoSession(j) ==
    /\ stopPc[j] = "idle" /\ stopPc'[j] # "idle"
    /\ ~InProgress(Snap)
    /\ stoppedSince \/ \A k \in Starts : startPc[k] = "idle"

\* C9: such a stopSession returns at once, requests no close and leaves every
\* handle null, outputNode included, the pending set empty and the cursor
\* at 0.
C9_StopAgainAllNull ==
    [][ \A j \in Stops :
          StopWithNoSession(j)
          => /\ stopPc'[j] = "done"
             /\ closeCalls' = closeCalls
             /\ Released'
             /\ outputNode' = 0
      ]_vars

C9_StoppedTwice ==
    /\ \A j \in Stops : j <= 2 => stopPc[j] = "done"
    /\ \E a \in Sessions : closeCalls[a] = 1 /\ connState[a] \in {"closing", "closed"}
    /\ \A a \in Sessions : closeCalls[a] <= 1
    /\ ~overlap /\ stoppedSince /\ Released /\ outputNode # 0

\* C10: when getUserMedia has failed for a startSession call, both audio
\* contexts that call allocated are closed, it has acquired no stream and
\* opened no connection.
C10_AbortReleasesAll ==
    \A k \in Starts :
        startPc[k] = "failed" =>
            /\ inCtxState[k] = "closed" /\ outCtxState[k] = "closed"
            /\ trackState[k] = "none" /\ connState[k] = "none"

\* C11: a step that delivers the close event of connection c invokes onClose
\* for c exactly once, with the manager already released (handles null,
\* pending set empty, cursor 0) when the callback runs; no other step
\* invokes it.
C11_TeardownThenOnClose ==
    [][ \A c \in Sessions :
          IF /\ connState'[c] # connState[c]
             /\ connState'[c] \in {"closed", "failed"}
             /\ closeCalls'[c] = closeCalls[c]
          THEN onCloseLog'[c] = Append(onCloseLog[c], TRUE)
          ELSE onCloseLog'[c] = onCloseLog[c]
      ]_vars

C11_ClosedWhilePlaying ==
    \E c \in Sessions, m \in Msgs :
        /\ connState[c] = "closed" /\ closeCalls[c] = 0
        /\ onCloseLog[c] = << TRUE >>
        /\ procState[c].st = "off" /\ trackState[c] = "stopped"
        /\ handlers[m].conn = c /\ bufState[m].st = "stopped"

\* C12: a step that delivers an error event invokes onError once and changes
\* nothing else: the connection handle, the capture and playback resources,
\* the pending set, the cursor and the connections are as they were.
C12_ErrorChangesNothing ==
    [][ onErrorCalls' # onErrorCalls =>
          /\ onErrorCalls' = onErrorCalls + 1
          /\ << activeSessionPromise, inputAudioContext, outputAudioContext,
                mediaStream, processor, source, nextStartTime, sources,
                outputNode >>' =
             << activeSessionPromise, inputAudioContext, outputAudioContext,
                mediaStream, processor, source, nextStartTime, sources,
                outputNode >>
          /\ << connState, inCtxState, outCtxState, trackState, procState,
                bufState, closeCalls, onCloseLog >>' =
             << connState, inCtxState, outCtxState, trackState, procState,
                bufState, closeCalls, onCloseLog >>
      ]_vars

C12_ErrorWhilePlaying ==
    /\ onErrorCalls >= 1
    /\ activeSessionPromise # 0 /\ connState[activeSessionPromise] = "open"
    /\ processor # 0 /\ procState[processor].st = "active"
    /\ mediaStream # 0 /\ trackState[mediaStream] = "live"
    /\ sources # {} /\ nextStartTime > 0
    /\ \A c \in Sessions : onCloseLog[c] = << >> /\ closeCalls[c] = 0

\* C13: in every reachable state, handling an interruption leaves every
\* pending buffer stopped, the pending set empty and the cursor at the output
\* clock (0 without an output context), changes neither the connection handle
\* nor any connection nor the capture pipeline, and handling a second one
\* right after changes nothing more.
C13_InterruptResets ==
    LET T == StopAudioPlayback(Snap)
        U == StopAudioPlayback(T)
    IN /\ \A m \in sources : T.bufState[m].st = "stopped"
       /\ \A m \in Msgs \ sources : T.bufState[m] = bufState[m]
       /\ T.sources = {}
       /\ T.nextStartTime = IF outputAudioContext # 0 THEN now ELSE 0
       /\ << T.activeSessionPromise, T.connState, T.closeCalls >> =
          << activeSessionPromise, connState, closeCalls >>
       /\ << T.processor, T.source, T.mediaStream, T.inputAudioContext,
             T.procState, T.trackState, T.inCtxState >> =
          << processor, source, mediaStream, inputAudioContext,
             procState, trackState, inCtxState >>
       /\ << T.outputAudioContext, T.outputNode, T.outCtxState, T.now >> =
          << outputAudioContext, outputNode, outCtxState, now >>
       /\ U = T

C13_Interrupted ==
    \E m \in Msgs :
        /\ bufState[m].st = "stopped"
        /\ sources = {} /\ now > 0 /\ nextStartTime = now
        /\ activeSessionPromise # 0 /\ connState[activeSessionPromise] = "open"
        /\ processor # 0 /\ procState[processor].st = "active"
        /\ \A j \in Stops : stopPc[j] = "idle"

\* C14: a step that moves the cursor backward is an interruption (same output
\* context, cursor put at the clock) or a teardown (output context gone or
\* replaced, cursor put at 0), and it leaves every pending buffer stopped and
\* the pending set empty; every other step leaves the cursor where it was or
\* moves it forward.
C14_CursorMonotone ==
    [][ nextStartTime' < nextStartTime =>
          /\ \A m \in sources : bufState'[m].st = "stopped"
          /\ sources' = {}
          /\ \/ /\ outputAudioContext' = outputAudioContext
                /\ now' = now /\ nextStartTime' = now
             \/ /\ outputAudioContext' # outputAudioContext
                /\ nextStartTime' = 0
      ]_vars

C14_Advanced ==
    \E m1, m2 \in Msgs :
        /\ m1 < m2
        /\ bufState[m1].st = "playing" /\ bufState[m2].st = "playing"
        /\ bufState[m2].start >= bufState[m1].start + bufState[m1].dur
        /\ nextStartTime = bufState[m2].start + bufState[m2].dur

\* Buffer m1 is pending and no buffer scheduled after it and before m2 is.
LastPendingBefore(m1, m2) ==
    /\ m1 < m2
    /\ bufState[m1].st = "playing"
    /\ \A k \in Msgs : (m1 < k /\ k < m2) => bufState[k].st # "playing"

\* C15 as claimed: of two pending buffers scheduled one after the other, the
\* second starts exactly where the first ends.
C15_Contiguous ==
    \A m1, m2 \in Msgs :
        ( /\ LastPendingBefore(m1, m2)
          /\ bufState[m2].st = "playing"
          /\ \A k \in Msgs : (m1 < k /\ k < m2) => bufState[k].st = "none" )
        => bufState[m2].start = bufState[m1].start + bufState[m1].dur

\* C15 as amended: a step that schedules a buffer starts it no earlier than
\* the clock, and where the last pending buffer ends if the clock has not
\* passed that point, else at the clock; the cursor is then at its end.
C15_ContiguousUnlessLate ==
    [][ \A m2 \in Msgs :
          (bufState[m2].st = "none" /\ bufState'[m2].st = "playing") =>
             /\ bufState'[m2].start >= now
             /\ nextStartTime' = bufState'[m2].start + bufState'[m2].dur
             /\ \A m1 \in Msgs :
                  LastPendingBefore(m1, m2) =>
                      bufState'[m2].start =
                          Max(bufState[m1].start + bufState[m1].dur, now)
             /\ (\A m1 \in Msgs : ~LastPendingBefore(m1, m2)) =>
                      bufState'[m2].start = Max(nextStartTime, now)
      ]_vars

C15_LateBuffer ==
    \E m1, m2 \in Msgs :
        /\ LastPendingBefore(m1, m2) /\ bufState[m2].st = "playing"
        /\ bufState[m2].start > bufState[m1].start + bufState[m1].dur
        /\ bufState[m2].start = now

\* C16: a step that schedules a buffer starts it no earlier than the clock
\* and no earlier than the end of any buffer that is pending, each of which
\* belongs to an earlier message: pending buffers never overlap and play in
\* the order scheduled.
C16_NoOverlap ==
    [][ \A m2 \in Msgs :
          (bufState[m2].st = "none" /\ bufState'[m2].st = "playing") =>
             /\ bufState'[m2].start >= now
             /\ bufState'[m2].dur > 0
             /\ \A m1 \in Msgs :
                  (m1 # m2 /\ bufState[m1].st = "playing") =>
                      /\ m1 < m2
                      /\ bufState'[m1] = bufState[m1]
                      /\ bufState'[m2].start >=
                             bufState[m1].start + bufState[m1].dur
      ]_vars

C16_BackToBack ==
    \E m1, m2 \in Msgs :
        /\ m1 < m2
        /\ bufState[m1].st = "playing" /\ bufState[m2].st = "playing"
        /\ bufState[m2].start = bufState[m1].start + bufState[m1].dur
        /\ bufState[m1].start >= TickLen
        /\ now = bufState[m1].start

\* C17: audio is scheduled in arrival order: of two messages delivered one
\* right after the other whose buffers are both pending (so that neither has
\* been flushed by an interruption), the one delivered first starts earlier.
C17_ArrivalOrder ==
    \A m1, m2 \in Msgs :
        ( /\ m2 = m1 + 1
          /\ bufState[m1].st = "playing" /\ bufState[m2].st = "playing" )
        => bufState[m1].start < bufState[m2].start

C17_BothScheduled ==
    \E m1, m2 \in Msgs :
        /\ m2 = m1 + 1
        /\ bufState[m1].st = "playing" /\ bufState[m2].st = "playing"
        /\ Len(handlers[m1].calls) > 0
        /\ handlers[m1].st = "done" /\ handlers[m2].st = "done"

\* C18: the step in which a handler returns from a message whose chunk is
\* malformed returns normally, schedules nothing for it, and changes neither
\* a connection nor a resource of the manager; the cursor, the pending set and
\* every buffer are as before, unless the same message is an interruption,
\* which flushes them as for any message.
C18_MalformedDropped ==
    [][ \A m \in Msgs :
          (handlers[m].st # "done" /\ handlers'[m].st = "done"
              /\ handlers'[m].audio \in Malformed) =>
             /\ bufState'[m].st = "none"
             /\ connState' = connState
             /\ connState[handlers'[m].conn] = "open"
             /\ << activeSessionPromise, inputAudioContext, outputAudioContext,
                   mediaStream, processor, source, outputNode >>' =
                << activeSessionPromise, inputAudioContext, outputAudioContext,
                   mediaStream, processor, source, outputNode >>
             /\ << inCtxState, outCtxState, trackState, procState, closeCalls,
                   onCloseLog, onErrorCalls >>' =
                << inCtxState, outCtxState, trackState, procState, closeCalls,
                   onCloseLog, onErrorCalls >>
             /\ IF handlers'[m].intr
                THEN StopAudioPlayback(Snap).bufState = bufState'
                       /\ sources' = {} /\ nextStartTime' = now
                ELSE << nextStartTime, sources, bufState >>' =
                       << nextStartTime, sources, bufState >>
      ]_vars

\* A malformed chunk was dropped and the buffer of a later message of the
\* same connection, still open, is pending.
C18_HandledAfterDrop ==
    \E m1, m2 \in Msgs :
        /\ m1 < m2
        /\ handlers[m1].st = "done" /\ handlers[m1].audio \in Malformed
        /\ ~handlers[m1].intr
        /\ handlers[m2].st = "done" /\ handlers[m2].conn = handlers[m1].conn
        /\ bufState[m2].st = "playing" /\ m2 \in sources
        /\ connState[handlers[m1].conn] = "open"

\* The samples of the chunk all lie in [-1, 1].
InRange == \A i \in 1..Len(pcmIn) :
               ~pcmIn[i].nan /\ pcmIn[i].num >= -Resolution
                             /\ pcmIn[i].num <= Resolution

\* Resolution * DecodeScale times the difference between sample i of the
\* chunk and sample i of the decoded buffer.
RoundTripError(i) ==
    pcmIn[i].num * DecodeScale - audioBuffer.channelData[i] * Resolution

\* C19 as claimed: a chunk of samples in [-1, 1] decodes to a buffer of the
\* same length whose samples each differ from the original by at most
\* 1/32768.
C19_RoundTrip ==
    (codecPc = "decoded" /\ InRange) =>
        /\ audioBuffer.st = "decoded"
        /\ Len(audioBuffer.channelData) = Len(pcmIn)
        /\ \A i \in 1..Len(pcmIn) :
              /\ RoundTripError(i) <= Resolution
              /\ RoundTripError(i) >= -Resolution

\* C19 as amended: a chunk of samples in [-1, 1] decodes to a buffer of the
\* same length; a decoded sample is never larger in magnitude than the
\* original and has its sign or is 0; a negative sample loses less than
\* 1/32768, any other sample less than 2/32768.
C19_RoundTripWithin2 ==
    (codecPc = "decoded" /\ InRange) =>
        /\ audioBuffer.st = "decoded"
        /\ Len(audioBuffer.channelData) = Len(pcmIn)
        /\ \A i \in 1..Len(pcmIn) :
              IF pcmIn[i].num < 0
              THEN /\ audioBuffer.channelData[i] < 0
                   /\ RoundTripError(i) <= 0
                   /\ RoundTripError(i) > -Resolution
              ELSE /\ audioBuffer.channelData[i] >= 0
                   /\ RoundTripError(i) >= 0
                   /\ RoundTripError(i) < 2 * Resolution

C19_LostMoreThanOne ==
    /\ codecPc = "decoded" /\ InRange
    /\ audioBuffer.st = "decoded"
    /\ Len(pcmIn) = MaxLen
    /\ \E i \in 1..Len(pcmIn) : RoundTripError(i) > Resolution
    /\ \E i \in 1..Len(pcmIn) : pcmIn[i].num < 0 /\ RoundTripError(i) < 0

\* C20: encoding saturates: whatever the samples of the chunk, NaN and values
\* outside [-1, 1] included, createPcmBlob returns a blob tagged
\* audio/pcm;rate=16000 that carries one 16-bit value per sample, each in
\* -32768..32767 and made of two bytes that btoa accepts; a sample at or
\* below -1 gives -32768 and a sample at or above 1 gives 32767.
C20_Saturates ==
    (codecPc \in {"encoded", "decoded"}) =>
        /\ pcmBlob.mimeType = "audio/pcm;rate=16000"
        /\ Len(int16) = Len(pcmIn)
        /\ \A i \in 1..Len(pcmIn) :
              /\ int16[i] >= -32768 /\ int16[i] <= 32767
              /\ (~pcmIn[i].nan /\ pcmIn[i].num <= -Resolution)
                    => int16[i] = -32768
              /\ (~pcmIn[i].nan /\ pcmIn[i].num >= Resolution)
                    => int16[i] = 32767
        /\ \A k \in 1..Len(Uint8View(int16)) :
              Uint8View(int16)[k] >= 0 /\ Uint8View(int16)[k] <= 255
        /\ Atob(pcmBlob.data) = [ok |-> TRUE, bytes |-> Uint8View(int16)]

C20_BothEndsSaturated ==
    /\ codecPc = "encoded"
    /\ \E i, j \in 1..Len(pcmIn) :
          /\ ~pcmIn[i].nan /\ pcmIn[i].num > Resolution /\ int16[i] = 32767
          /\ ~pcmIn[j].nan /\ pcmIn[j].num < -Resolution /\ int16[j] = -32768

\* C23: a close event of a superseded session leaves the current session
\* alone: when onclose runs for connection c while the manager's contexts are
\* those a later startSession allocated, the manager's handles, the cursor, the
\* pending set, and every stream, context and processor of another session
\* are as they were before the event.
C23_StaleCloseHarmless ==
    [][ \A c \in Sessions :
          ( /\ Len(onCloseLog'[c]) > Len(onCloseLog[c])
            /\ outputAudioContext # 0 /\ outputAudioContext # c ) =>
             /\ << activeSessionPromise, inputAudioContext, outputAudioContext,
                   mediaStream, processor, source, nextStartTime, sources >>' =
                << activeSessionPromise, inputAudioContext, outputAudioContext,
                   mediaStream, processor, source, nextStartTime, sources >>
             /\ \A k \in Sessions \ {c} :
                   /\ inCtxState'[k] = inCtxState[k]
                   /\ outCtxState'[k] = outCtxState[k]
                   /\ trackState'[k] = trackState[k]
                   /\ procState'[k] = procState[k]
      ]_vars

\* The close event of a superseded session has been delivered, and the
\* session that replaced it is open without contexts and without capture.
C23_SupersededClosed ==
    \E a, b \in Sessions :
        /\ a # b
        /\ connState[a] = "closed" /\ Len(onCloseLog[a]) > 0
        /\ connState[b] = "open" /\ activeSessionPromise = b
        /\ trackState[b] = "live"
        /\ outCtxState[b] = "closed"
        /\ ~overlap

\* C24: after every step the pending set holds exactly the buffers that were
\* scheduled and have neither ended nor been cut; a source leaves the set only
\* when its own playback ends, the others staying, or when an interruption or
\* a teardown cuts all of them; and a chunk of 0.5 s (duration 1) scheduled
\* right after another chunk of 0.5 s that started at the clock leaves both in
\* the set and the cursor 1.0 s (2 units) past the clock.
C24_PendingExact ==
    [][ /\ sources' = {m \in Msgs : bufState'[m].st = "playing"}
        /\ \A m \in sources \ sources' :
              \/ bufState'[m].st = "ended" /\ sources' = sources \ {m}
              \/ bufState'[m].st = "stopped" /\ sources \cap sources' = {}
        /\ \A m1, m2 \in Msgs :
              ( /\ m2 = m1 + 1
                /\ sources = {m1}
                /\ bufState[m1] = [st |-> "playing", start |-> now, dur |-> 1]
                /\ bufState[m2].st = "none"
                /\ bufState'[m2].st = "playing" /\ bufState'[m2].dur = 1 )
              => /\ sources' = {m1, m2}
                 /\ nextStartTime' = now + 2
      ]_vars

C24_TwoPending ==
    \E m1, m2 \in Msgs :
        /\ m2 = m1 + 1
        /\ sources = {m1, m2}
        /\ bufState[m1] = [st |-> "playing", start |-> now, dur |-> 1]
        /\ bufState[m2] = [st |-> "playing", start |-> now + 1, dur |-> 1]
        /\ nextStartTime = now + 2
        /\ now > 0

\* C25: a stopSession that has been called and is waiting for the connection
\* eventually returns, the manager released by its teardown.
C25_StopReachesTeardown ==
    \A j \in Stops : (stopPc[j] = "awaitSession") ~> (stopPc[j] = "done")

\* A stopSession waits on a connection that is still opening.
C25_StopWaiting ==
    \E j \in Stops :
        /\ stopPc[j] = "awaitSession"
        /\ activeSessionPromise # 0
        /\ connState[activeSessionPromise] = "opening"
        /\ trackState[activeSessionPromise] = "live"

\* ---- The item list of the App ----

\* Ids of the items of plan r: `mat-${Date.now()}-${index}`.
PlanId(r, i) == (r - 1) * MaxItems + i

\* An item as generateMaterialList returns it.
PlanItem(id) ==
    [id |-> id, status |-> "IDLE", imageUrl |-> NoUrl, error |-> "",
     blueprintStatus |-> "IDLE", blueprintUrl |-> NoUrl,
     videoStatus |-> "IDLE", videoUrl |-> NoUrl]

GeneratedMaterials(r, n) == [i \in 1..n |-> PlanItem(PlanId(r, i))]

Ids(list) == {list[i].id : i \in DOMAIN list}

ItemOf(list, id) == list[CHOOSE i \in DOMAIN list : list[i].id = id]

Kinds == {"image", "blueprint", "video"}

\* The status field a request of this kind writes.
StatusOf(m, kind) ==
    CASE kind = "image"     -> m.status
      [] kind = "blueprint" -> m.blueprintStatus
      [] kind = "video"     -> m.videoStatus

\* setMaterials(prev => prev.map(m => m.id === id ? {...m, <LOADING>} : m))
SetLoading(list, id, kind) ==
    [i \in DOMAIN list |->
        IF list[i].id # id THEN list[i]
        ELSE CASE kind = "image" ->
                    [list[i] EXCEPT !.status = "LOADING", !.error = ""]
               [] kind = "blueprint" ->
                    [list[i] EXCEPT !.blueprintStatus = "LOADING"]
               [] kind = "video" ->
                    [list[i] EXCEPT !.videoStatus = "LOADING"]]

\* The success branch of the three handlers.
SetSucceeded(list, id, kind) ==
    [i \in DOMAIN list |->
        IF list[i].id # id THEN list[i]
        ELSE CASE kind = "image" ->
                    [list[i] EXCEPT !.status = "SUCCESS", !.imageUrl = "url"]
               [] kind = "blueprint" ->
                    [list[i] EXCEPT !.blueprintStatus = "SUCCESS",
                                    !.blueprintUrl = "url"]
               [] kind = "video" ->
                    [list[i] EXCEPT !.videoStatus = "SUCCESS", !.videoUrl = "url"]]

\* A catch block that marks the whole list.
SetFailedEverywhere(list, id, kind) ==
    [i \in DOMAIN list |->
        CASE kind = "image" ->
                [list[i] EXCEPT !.status = "ERROR", !.error = "Failed"]
          [] kind = "blueprint" ->
                [list[i] EXCEPT !.blueprintStatus = "ERROR"]
          [] kind = "video" ->
                [list[i] EXCEPT !.videoStatus = "ERROR"]]

\* A catch block that only logs.
SetFailedSilently(list, id, kind) == list

\* The catch block of the three handlers.
SetFailed(list, id, kind) ==
    [i \in DOMAIN list |->
        IF list[i].id # id THEN list[i]
        ELSE CASE kind = "image" ->
                    [list[i] EXCEPT !.status = "ERROR", !.error = "Failed"]
               [] kind = "blueprint" ->
                    [list[i] EXCEPT !.blueprintStatus = "ERROR"]
               [] kind = "video" ->
                    [list[i] EXCEPT !.videoStatus = "ERROR"]]

FreeReq(q) ==
    /\ mediaCalls[q].st = "none"
    /\ \A p \in Reqs : p < q => mediaCalls[p].st # "none"

\* The tool callback runs when a message of an open session brings a call.
SessionOpen == \E c \in Sessions : connState[c] = "open"

\* handleGenerateItemImage and handleGenerateBlueprint up to their await: the
\* item is looked up, marked LOADING, and the request leaves.
StartMedia(q, id, kind) ==
    /\ appMounted
    /\ FreeReq(q)
    /\ id \in Ids(materials)
    /\ materials' = SetLoading(materials, id, kind)
    /\ mediaCalls' = [mediaCalls EXCEPT ![q] =
            [st |-> "inflight", id |-> id, kind |-> kind, polls |-> 0, ok |-> FALSE]]
    /\ UNCHANGED << managerVars, codecVars, liveVars, selectedIds, isLoadingList,
                    isBatchGenerating, planCalls, addCalls, batchCalls >>

\* The Generate and Retry buttons of a card.
ClickGenerate(id) ==
    /\ id \in Ids(materials)
    /\ ItemOf(materials, id).status \in {"IDLE", "ERROR"}
    /\ \E q \in Reqs : StartMedia(q, id, "image")

\* The generate_image tool: any item the model names, whatever its status.
VoiceGenerateImage(id) ==
    /\ SessionOpen
    /\ \E q \in Reqs : StartMedia(q, id, "image")

\* The Blueprint button of a card.
ClickBlueprint(id) ==
    /\ id \in Ids(materials)
    /\ ItemOf(materials, id).blueprintStatus \in {"undefined", "IDLE"}
    /\ \E q \in Reqs : StartMedia(q, id, "blueprint")

\* The Animate and retry-video buttons of a card: handleAnimateMaterial up to
\* its first await, the key check.
ClickAnimate(id) ==
    /\ appMounted
    /\ id \in Ids(materials)
    /\ LET m == ItemOf(materials, id) IN
          \/ m.status = "SUCCESS" /\ m.videoStatus \notin {"LOADING", "SUCCESS"}
          \/ m.videoStatus = "ERROR"
    /\ \E q \in Reqs :
          /\ FreeReq(q)
          /\ mediaCalls' = [mediaCalls EXCEPT ![q] =
                [st |-> "keyCheck", id |-> id, kind |-> "video", polls |-> 0,
                 ok |-> FALSE]]
    /\ UNCHANGED << managerVars, codecVars, liveVars, materials, selectedIds,
                    isLoadingList, isBatchGenerating, planCalls, addCalls, batchCalls >>

\* The key check settles, either way: the item is marked LOADING and
\* generateVeoVideo is called.
KeyChecked(q) ==
    /\ mediaCalls[q].st = "keyCheck"
    /\ materials' = SetLoading(materials, mediaCalls[q].id, "video")
    /\ mediaCalls' = [mediaCalls EXCEPT ![q].st = "inflight"]
    /\ UNCHANGED << managerVars, codecVars, liveVars, selectedIds, isLoadingList,
                    isBatchGenerating, planCalls, addCalls, batchCalls >>

\* The polling loop of generateVeoVideo finds the operation unfinished.
PollPending(q) ==
    /\ mediaCalls[q].st = "inflight"
    /\ mediaCalls[q].kind = "video"
    /\ mediaCalls[q].polls < MaxPolls
    /\ mediaCalls' = [mediaCalls EXCEPT ![q].polls = @ + 1]
    /\ UNCHANGED << managerVars, codecVars, liveVars, materials, selectedIds,
                    isLoadingList, isBatchGenerating, planCalls, addCalls, batchCalls >>

\* The media service answers request q: with a URL, or with nothing or a
\* rejection, which both end in the catch block.
MediaAnswers(q, ok) ==
    /\ mediaCalls[q].st = "inflight"
    /\ materials' = IF ok
                     THEN SetSucceeded(materials, mediaCalls[q].id, mediaCalls[q].kind)
                     ELSE SetFailed(materials, mediaCalls[q].id, mediaCalls[q].kind)
    /\ mediaCalls' = [mediaCalls EXCEPT ![q] =
                        [NoMedia EXCEPT !.st = "done", !.ok = ok]]
    /\ UNCHANGED << managerVars, codecVars, liveVars, selectedIds, isLoadingList,
                    isBatchGenerating, planCalls, addCalls, batchCalls >>

InFlight(id) ==
    \E q \in Reqs : /\ mediaCalls[q].st \in {"keyCheck", "inflight"}
                     /\ mediaCalls[q].id = id

\* A generated plan on display and a live session open.
InitItems ==
    /\ Opened
    /\ CodecIdle
    /\ appMounted = TRUE
    /\ isGeneralLiveActive = TRUE
    /\ materials = GeneratedMaterials(1, MaxItems)
    /\ selectedIds = {}
    /\ isLoadingList = FALSE
    /\ isBatchGenerating = FALSE
    /\ NothingInFlight

\* The cards, the generate_image tool and the media service.
NextMedia ==
    \/ \E id \in Ids(materials) : ClickGenerate(id)
    \/ \E id \in Ids(materials) : VoiceGenerateImage(id)
    \/ \E id \in Ids(materials) : ClickBlueprint(id)
    \/ \E id \in Ids(materials) : ClickAnimate(id)
    \/ \E q \in Reqs : KeyChecked(q)
    \/ \E q \in Reqs : PollPending(q)
    \/ \E q \in Reqs, ok \in BOOLEAN : MediaAnswers(q, ok)

\* The same beside a session that the remote side may close.
NextItems ==
    \/ NextMedia
    \/ \E c \in Sessions : OnClose(c)

SpecItems == InitItems /\ [][NextItems]_vars

\* The media service answers every request it was sent.
ServiceAnswers ==
    \A q \in Reqs : WF_vars(\E ok \in BOOLEAN : MediaAnswers(q, ok))

SpecMediaFair == InitItems /\ [][NextMedia]_vars /\ ServiceAnswers

\* ---- Plans and the selection ----

\* Ids of the items the add_item tool appends:
\* `mat-${Date.now()}-${Math.random()...}`.
AddedId(a) == MaxPlans * MaxItems + a

\* An item as the add_item tool builds it: no blueprintStatus.
AddedItem(id) == [PlanItem(id) EXCEPT !.blueprintStatus = "undefined"]

FreePlan(r) ==
    /\ planCalls[r].st = "none"
    /\ \A o \in Plans : o < r => planCalls[o].st # "none"

\* handleTopicSubmit up to its await, with a topic that is not blank: loading
\* is shown, the list and the selection are emptied, the request leaves.
HandleTopicSubmit(r) ==
    /\ appMounted
    /\ FreePlan(r)
    /\ isLoadingList' = TRUE
    /\ materials' = << >>
    /\ selectedIds' = {}
    /\ planCalls' = [planCalls EXCEPT ![r] = [st |-> "inflight", n |-> 0]]
    /\ UNCHANGED << managerVars, codecVars, liveVars, isBatchGenerating,
                    addCalls, mediaCalls, batchCalls >>

\* Enter in the topic box: nothing disables it.
PressEnter(r) == HandleTopicSubmit(r)

\* The Generate Plan button, disabled while a plan is loading, and the
\* example topics, shown while there is no list and none is loading.
ClickGeneratePlan(r) ==
    /\ ~isLoadingList
    /\ HandleTopicSubmit(r)

\* The plan_project tool calls handleTopicSubmit and does not wait for it.
VoicePlanProject(r) ==
    /\ SessionOpen
    /\ HandleTopicSubmit(r)

\* generateMaterialList returns n items: the list is replaced and loading
\* is taken down.
PlanResolves(r, n) ==
    /\ planCalls[r].st = "inflight"
    /\ materials' = GeneratedMaterials(r, n)
    /\ isLoadingList' = FALSE
    /\ planCalls' = [planCalls EXCEPT ![r] = [st |-> "done", n |-> n]]
    /\ UNCHANGED << managerVars, codecVars, liveVars, selectedIds,
                    isBatchGenerating, addCalls, mediaCalls, batchCalls >>

\* generateMaterialList throws: an error line, and loading is taken down.
PlanRejects(r) ==
    /\ planCalls[r].st = "inflight"
    /\ isLoadingList' = FALSE
    /\ planCalls' = [planCalls EXCEPT ![r] = [st |-> "done", n |-> 0]]
    /\ UNCHANGED << managerVars, codecVars, liveVars, materials, selectedIds,
                    isBatchGenerating, addCalls, mediaCalls, batchCalls >>

\* The add_item tool appends an item to whatever list there is.
VoiceAddItem ==
    /\ appMounted
    /\ SessionOpen
    /\ addCalls < MaxAdds
    /\ addCalls' = addCalls + 1
    /\ materials' = Append(materials, AddedItem(AddedId(addCalls + 1)))
    /\ UNCHANGED << managerVars, codecVars, liveVars, selectedIds, isLoadingList,
                    isBatchGenerating, planCalls, mediaCalls, batchCalls >>

\* A new selection; everything else stays.
Select(next) ==
    /\ appMounted
    /\ selectedIds' = next
    /\ UNCHANGED << managerVars, codecVars, liveVars, materials, isLoadingList,
                    isBatchGenerating, planCalls, addCalls, mediaCalls, batchCalls >>

Toggled(sel, ids) == (sel \ ids) \cup (ids \ sel)

\* The checkbox of a card.
ToggleSelection(id) ==
    /\ id \in Ids(materials)
    /\ Select(Toggled(selectedIds, {id}))

\* The Select All button above the list.
HandleSelectAll ==
    /\ Len(materials) > 0
    /\ Select(IF Cardinality(selectedIds) = Len(materials)
               THEN {} ELSE Ids(materials))

\* The select_items tool: criteria all, none, or a filter that matches some
\* of the items on display; action select, deselect or toggle.
VoiceSelectItems(criteria, matching, action) ==
    /\ SessionOpen
    /\ LET idsToModify == IF criteria = "all" THEN Ids(materials) ELSE matching
       IN Select(CASE criteria = "none"  -> {}
                   [] action = "deselect" -> selectedIds \ idsToModify
                   [] action = "toggle"   -> Toggled(selectedIds, idsToModify)
                   [] OTHER               -> selectedIds \cup idsToModify)

\* Cancel in the batch bar, and the clear_selection batch action.
ClearSelection ==
    /\ selectedIds # {}
    /\ Select({})

\* The mounted App with a live session open and nothing planned yet.
InitPlans ==
    /\ Opened
    /\ CodecIdle
    /\ appMounted = TRUE
    /\ isGeneralLiveActive = TRUE
    /\ ListEmpty

NextPlans ==
    \/ \E r \in Plans : PressEnter(r)
    \/ \E r \in Plans : ClickGeneratePlan(r)
    \/ \E r \in Plans : VoicePlanProject(r)
    \/ \E r \in Plans, n \in 1..MaxItems : PlanResolves(r, n)
    \/ \E r \in Plans : PlanRejects(r)
    \/ VoiceAddItem
    \/ \E id \in Ids(materials) : ToggleSelection(id)
    \/ HandleSelectAll
    \/ \E criteria \in {"all", "none", "filter"}, matching \in SUBSET Ids(materials),
          action \in {"select", "deselect", "toggle"} :
            VoiceSelectItems(criteria, matching, action)
    \/ ClearSelection
    \/ \E c \in Sessions : OnClose(c)

SpecPlans == InitPlans /\ [][NextPlans]_vars

\* The last plan submitted so far, 0 when there is none.
LastSubmitted ==
    IF \A r \in Plans : planCalls[r].st = "none" THEN 0
    ELSE CHOOSE r \in Plans :
            /\ planCalls[r].st # "none"
            /\ \A o \in Plans : o > r => planCalls[o].st = "none"

\* ---- Batch generation ----

ChunkSize == 3

\* Array.from(selectedIds), taken in the order of the list.
RECURSIVE Ascending(_)
Ascending(set) ==
    IF set = {} THEN << >>
    ELSE LET first == CHOOSE x \in set : \A y \in set : x <= y
         IN << first >> \o Ascending(set \ {first})

\* The batch loop from offset i on, up to its next await that has something
\* to wait for: handleGenerateItemImage is called for each id of the chunk,
\* marks the item LOADING and sends a request, or returns at once when the id
\* is not in the list; a chunk without requests is passed over.
RECURSIVE NextChunk(_, _, _)
NextChunk(list, ids, i) ==
    IF i >= Len(ids)
    THEN [over |-> TRUE, i |-> 0, flight |-> {}, list |-> list]
    ELSE LET chunk == {ids[j] : j \in (i + 1)..Min(i + ChunkSize, Len(ids))}
             sent  == chunk \cap Ids(list)
         IN IF sent = {}
            THEN NextChunk(list, ids, i + ChunkSize)
            ELSE [over |-> FALSE, i |-> i, flight |-> sent,
                  list |-> [k \in DOMAIN list |->
                             IF list[k].id \in sent
                             THEN [list[k] EXCEPT !.status = "LOADING", !.error = ""]
                             ELSE list[k]]]

FreeBatch(b) ==
    /\ batchCalls[b].st = "none"
    /\ \A o \in Batches : o < b => batchCalls[o].st # "none"

\* handleBatchGenerate, and the async block of the batch_action tool, up to
\* the first await: the selection is copied, the flag is raised, and the
\* first chunk is sent.
StartBatch(b) ==
    /\ appMounted
    /\ FreeBatch(b)
    /\ selectedIds # {}
    /\ LET ids == Ascending(selectedIds)
           c   == NextChunk(materials, ids, 0)
       IN /\ materials' = c.list
          /\ isBatchGenerating' = ~c.over
          /\ selectedIds' = IF c.over THEN {} ELSE selectedIds
          /\ batchCalls' = [batchCalls EXCEPT ![b] =
                IF c.over THEN [NoBatch EXCEPT !.st = "done"]
                ELSE [st |-> "running", ids |-> ids, i |-> c.i, flight |-> c.flight]]
    /\ UNCHANGED << managerVars, codecVars, liveVars, isLoadingList, planCalls,
                    addCalls, mediaCalls >>

\* The Generate Images button of the batch bar, disabled while the flag is up.
ClickBatchGenerate(b) ==
    /\ ~isBatchGenerating
    /\ StartBatch(b)

\* The batch_action tool with generate_images: no look at the flag.
VoiceBatchAction(b) ==
    /\ SessionOpen
    /\ StartBatch(b)

\* The media service answers the image request of batch b for item id. When
\* it was the last of its chunk, Promise.all resolves and the loop goes on:
\* the next chunk is sent, or the flag is lowered and the selection cleared.
BatchImageAnswers(b, id, ok) ==
    /\ batchCalls[b].st = "running"
    /\ id \in batchCalls[b].flight
    /\ LET answered == IF ok THEN SetSucceeded(materials, id, "image")
                              ELSE SetFailed(materials, id, "image")
           rest == batchCalls[b].flight \ {id}
           c    == NextChunk(answered, batchCalls[b].ids, batchCalls[b].i + ChunkSize)
       IN IF rest # {}
          THEN /\ materials' = answered
               /\ batchCalls' = [batchCalls EXCEPT ![b].flight = rest]
               /\ UNCHANGED << isBatchGenerating, selectedIds >>
          ELSE IF c.over
          THEN /\ materials' = answered
               /\ batchCalls' = [batchCalls EXCEPT ![b] = [NoBatch EXCEPT !.st = "done"]]
               /\ isBatchGenerating' = FALSE
               /\ selectedIds' = {}
          ELSE /\ materials' = c.list
               /\ batchCalls' = [batchCalls EXCEPT ![b].i = c.i, ![b].flight = c.flight]
               /\ UNCHANGED << isBatchGenerating, selectedIds >>
    /\ UNCHANGED << managerVars, codecVars, liveVars, isLoadingList, planCalls,
                    addCalls, mediaCalls >>

\* Image requests of batches b and below that are in flight.
RECURSIVE BatchRequestsInFlight(_)
BatchRequestsInFlight(b) ==
    IF b = 0 THEN 0
    ELSE Cardinality(batchCalls[b].flight) + BatchRequestsInFlight(b - 1)

\* A plan of BatchItems items on display and a live session open.
InitBatch ==
    /\ Opened
    /\ CodecIdle
    /\ appMounted = TRUE
    /\ isGeneralLiveActive = TRUE
    /\ materials = [i \in 1..BatchItems |-> PlanItem(i)]
    /\ selectedIds = {}
    /\ isLoadingList = FALSE
    /\ isBatchGenerating = FALSE
    /\ NothingInFlight

NextBatch ==
    \/ \E id \in Ids(materials) : ToggleSelection(id)
    \/ HandleSelectAll
    \/ ClearSelection
    \/ \E b \in Batches : ClickBatchGenerate(b)
    \/ \E b \in Batches : VoiceBatchAction(b)
    \/ \E b \in Batches, id \in Ids(materials), ok \in BOOLEAN :
          BatchImageAnswers(b, id, ok)

SpecBatch == InitBatch /\ [][NextBatch]_vars

\* C22: the step in which the session is closed, reports an error or fails
\* to start leaves isGeneralLiveActive false, and a step that sets the flag is
\* a step in which the user starts a session.
C22_NotListeningAfterFailure ==
    [][ /\ ( \/ \E c \in Sessions : Len(onCloseLog'[c]) > Len(onCloseLog[c])
             \/ onErrorCalls' > onErrorCalls
             \/ \E k \in Starts : startPc[k] # "failed" /\ startPc'[k] = "failed" )
           => ~isGeneralLiveActive'
        /\ (~isGeneralLiveActive /\ isGeneralLiveActive')
           => \E k \in Starts : startPc[k] = "idle" /\ startPc'[k] # "idle"
      ]_vars

\* The remote side closed an open session the user had started, and the flag
\* is down.
C22_ClosedByRemote ==
    \E c \in Sessions :
        /\ connState[c] = "closed" /\ closeCalls[c] = 0
        /\ Len(onCloseLog[c]) = 1
        /\ ~isGeneralLiveActive
        /\ \A k \in Starts : startPc[k] \in {"idle", "done"}
        /\ \A j \in Stops : stopPc[j] = "idle"

\* C26: whenever isGeneralLiveActive is false and no startSession or
\* stopSession call is in progress, no microphone stream is live and no
\* connection is open or opening.
C26_NotListeningMeansReleased ==
    (appMounted /\ ~isGeneralLiveActive /\ ~InProgress(Snap)) =>
        /\ \A k \in Sessions : trackState[k] # "live"
        /\ \A c \in Sessions : connState[c] \notin {"opening", "open"}

C26_ErrorReported ==
    /\ appMounted /\ ~isGeneralLiveActive /\ ~InProgress(Snap)
    /\ onErrorCalls > 0
    /\ \E c \in Sessions : connState[c] = "open" /\ trackState[c] = "live"
                               /\ activeSessionPromise = c

\* C21: the step in which the image, blueprint or video request for item X
\* fails sets X's status field of that kind to ERROR (and, for an image, its
\* error text) and nothing else: X's other status fields and its URLs, every
\* other item, the length and order of the list, the selection and the
\* session manager are as before.
C21_FailureScopedToItem ==
    [][ \A q \in Reqs :
          (mediaCalls[q].st = "inflight" /\ mediaCalls'[q].st = "done"
                /\ ~mediaCalls'[q].ok) =>
            LET x == mediaCalls[q].id
                kind == mediaCalls[q].kind
            IN /\ Len(materials') = Len(materials)
               /\ \A i \in DOMAIN materials :
                     /\ materials'[i].id = materials[i].id
                     /\ materials[i].id # x => materials'[i] = materials[i]
                     /\ materials[i].id = x =>
                           /\ StatusOf(materials'[i], kind) = "ERROR"
                           /\ \A other \in Kinds \ {kind} :
                                 StatusOf(materials'[i], other) =
                                     StatusOf(materials[i], other)
                           /\ materials'[i].imageUrl = materials[i].imageUrl
                           /\ materials'[i].blueprintUrl = materials[i].blueprintUrl
                           /\ materials'[i].videoUrl = materials[i].videoUrl
               /\ selectedIds' = selectedIds
               /\ UNCHANGED << managerVars, liveVars >>
      ]_vars

\* The image request of the first item has failed while the second item was
\* loading and the session was open.
C21_FailedBesideLoading ==
    /\ Len(materials) >= 2
    /\ materials[1].status = "ERROR" /\ materials[1].error = "Failed"
    /\ materials[2].status = "LOADING"
    /\ \E q \in Reqs : mediaCalls[q].st = "done" /\ ~mediaCalls[q].ok
    /\ \E c \in Sessions : connState[c] = "open" /\ activeSessionPromise = c

\* C30: a request that has marked an item LOADING is answered, given that
\* the media service answers, and the step that takes the answer sets that
\* status field to SUCCESS or ERROR; an item with no request in flight has no
\* status field LOADING; and an image status of SUCCESS comes with an
\* imageUrl.
C30_NoItemLeftLoading ==
    /\ \A q \in Reqs :
          (mediaCalls[q].st = "inflight") ~> (mediaCalls[q].st = "done")
    /\ [][ \A q \in Reqs :
              (mediaCalls[q].st = "inflight" /\ mediaCalls'[q].st = "done") =>
                 \A i \in DOMAIN materials' :
                    materials'[i].id = mediaCalls[q].id =>
                       StatusOf(materials'[i], mediaCalls[q].kind) =
                          IF mediaCalls'[q].ok THEN "SUCCESS" ELSE "ERROR"
          ]_vars
    /\ [](\A i \in DOMAIN materials :
            /\ ~InFlight(materials[i].id) =>
                   \A kind \in Kinds : StatusOf(materials[i], kind) # "LOADING"
            /\ materials[i].status = "SUCCESS" => materials[i].imageUrl # NoUrl)

\* Every request has been answered: an image that succeeded, its video that
\* failed after a poll, and they left no field LOADING.
C30_AllAnswered ==
    /\ \A q \in Reqs : mediaCalls[q].st = "done"
    /\ \E i \in DOMAIN materials :
          /\ materials[i].status = "SUCCESS" /\ materials[i].imageUrl # NoUrl
          /\ materials[i].videoStatus = "ERROR"

\* C27: isLoadingList is true while a plan request is in flight, and once
\* every request has settled the list shows no item of a plan other than the
\* last one submitted and, if that one returned items, all of them.
C27_LastSubmittedWins ==
    /\ (\E r \in Plans : planCalls[r].st = "inflight") => isLoadingList
    /\ (LastSubmitted # 0 /\ \A r \in Plans : planCalls[r].st # "inflight") =>
          /\ \A r \in Plans, i \in 1..MaxItems :
                PlanId(r, i) \in Ids(materials) => r = LastSubmitted
          /\ \A i \in 1..planCalls[LastSubmitted].n :
                PlanId(LastSubmitted, i) \in Ids(materials)

\* Both requests have settled and the list is the plan of the first topic
\* although a second topic was submitted after it.
C27_StalePlanShown ==
    /\ \A r \in Plans : planCalls[r].st = "done"
    /\ ~isLoadingList
    /\ planCalls[1].n > 0 /\ planCalls[2].n > 0
    /\ materials = GeneratedMaterials(1, planCalls[1].n)

\* C28: every selected id is the id of an item of the list.
C28_SelectionWithinList ==
    selectedIds \subseteq Ids(materials)

\* A single plan request, now settled, and the selection still holds the item
\* that add_item appended while it was loading.
C28_SelectedItemGone ==
    /\ planCalls[1].st = "done" /\ planCalls[1].n > 0
    /\ \A r \in Plans : r > 1 => planCalls[r].st = "none"
    /\ materials = GeneratedMaterials(1, planCalls[1].n)
    /\ selectedIds = {AddedId(1)}

\* C29: at most 3 image requests started by batch generation are in flight,
\* and isBatchGenerating is true while a batch is running.
C29_BatchThrottled ==
    /\ BatchRequestsInFlight(MaxBatches) <= ChunkSize
    /\ (\E b \in Batches : batchCalls[b].st = "running") => isBatchGenerating

\* Two batches at once: six image requests in flight.
C29_TwoBatchesAtOnce ==
    /\ \A b \in {1, 2} : batchCalls[b].st = "running"
                            /\ Cardinality(batchCalls[b].flight) = ChunkSize
    /\ isBatchGenerating

====
